---- MODULE Spec2Model ----
(***************************************************************************)
(* pytoma: the edit resolver (merge_edits) and the text patcher            *)
(* (_apply_edits_to_text) of src/pytoma/edits.py, and the two passes over  *)
(* storage built on them: apply_edits_preview and apply_edits_in_place;    *)
(* the choice of an action for each node (_decide_for_node of core.py) and *)
(* what the Python engine renders for it; the pass of build_prompt over    *)
(* the files it discovers; the spans of the edits rendered by the Python   *)
(* engine and the Markdown engine.                                         *)
(*                                                                         *)
(* Texts and replacements are sequences of code points.  The text of       *)
(* length n is <<1, ..., n>>, so every original character is distinct;     *)
(* replacement characters are numbers above 100.  A path is the sequence   *)
(* of code points of its POSIX string.                                     *)
(***************************************************************************)
EXTENDS Integers, Sequences, FiniteSets

\* ---------------------------------------------------------------- bounds
\* offsets of the collected edits range over 0..MaxPos
MaxPos == 3
\* the caller collects at most MaxEdits edits in one pass
MaxEdits == 3
\* the caller runs at most MaxRuns passes over storage with one edit list
MaxRuns == 2
\* the configuration holds at most MaxRules rules
MaxRules == 2
\* a parsed Python file has at most MaxLines lines
MaxLines == 4
\* a parsed Markdown text has at most MaxMdLines lines
MaxMdLines == 3
\* Markdown headings have levels 1..MaxLevel
MaxLevel == 3

VARIABLES
    edits,      \* the edits collected by the caller, in collection order
    pc,         \* "collect" | "merged" | "applied" | "patched"
    merged,     \* outcome of merge_edits(edits)
    doc,        \* the document whose group is being patched
    text,       \* the text handed to _apply_edits_to_text
    out         \* outcome of _apply_edits_to_text

\* the passes over storage
VARIABLES
    store,      \* the stored documents: path -> [present, text]
    op,         \* the running or last pass: "none" | "preview" | "persist"
    queue,      \* the documents the loop of the pass has not yet reached
    previews,   \* the mapping the preview pass is filling
    status,     \* "idle" | "running" | "returned" | "conflict" |
                \* "span_error" | "read_error" | "write_error"
    reads,      \* read_text calls of the pass, per document
    writes,     \* write_text calls of the pass, per document
    before,     \* the store when the pass was called
    prev,       \* how the pass before this one ended
    run         \* number of passes called so far

svars == <<store, op, queue, previews, status, reads, writes, before, prev,
           run>>

\* the decisions for the nodes of one Python file
VARIABLES
    rules,      \* cfg.rules: records [match, mode], in configuration order
    default,    \* cfg.default
    todo,       \* the nodes of doc.nodes not yet decided
    decisions,  \* the (node, action) pairs handed to engine.render
    rendered    \* what engine.render produced, per node

dvars == <<rules, default, todo, decisions, rendered>>

\* the pass of build_prompt
VARIABLES
    pending,    \* the discovered files the parse loop has not yet reached
    docs_text,  \* docs_text: path -> the text read by the parse loop
    loaded,     \* read_text calls of the parse loop, per file
    foreign,    \* the files another writer has rewritten during the pass
    shown       \* the text packed for each eligible file

pvars == <<pending, docs_text, loaded, foreign, shown>>

\* the file an engine has parsed
VARIABLES
    py_lines,   \* the lines of a Python file, each by what it holds
    trailing,   \* whether the last line of the file ends with a newline
    md_lines,   \* the lines of a Markdown file: 0 for a line of text, the
                \* level for a heading line
    remaining   \* the nodes of the document not yet rendered

evars == <<py_lines, trailing, md_lines, remaining>>

vars == <<edits, pc, merged, doc, text, out, store, op, queue, previews,
          status, reads, writes, before, prev, run, rules, default, todo,
          decisions, rendered, pending, docs_text, loaded, foreign, shown,
          py_lines, trailing, md_lines, remaining>>

\* ------------------------------------------------------------ data model
\* the documents edits may refer to: "ab" and "b" as code points
Paths == {<<1, 2>>, <<2>>}

NoPath == <<>>

Spans == {sp \in (0..MaxPos) \X (0..MaxPos) : sp[1] <= sp[2]}

\* the spans collected for each document.  Documents are resolved one by
\* one, so the first document takes every span and the second one a
\* conflicting pair and an insertion nested in one and starting the other.
SpansOf(p) ==
    IF p = <<1, 2>> THEN Spans ELSE {<<0, 2>>, <<1, 3>>, <<1, 1>>}

NoSpan == <<0, 0>>

\* Edit(path, span, replacement)
Edit(p, sp, r) == [path |-> p, span |-> sp, replacement |-> r]

\* the replacement carried by the i-th collected edit: a one character
\* text, a two character text or the empty text (a deletion), all distinct.
\* merge_edits never reads a replacement and the patcher only splices it
\* in, so distinct replacements are the general case.
ReplacementOf(i) ==
    CASE i % 3 = 1 -> <<100 + i>>
      [] i % 3 = 2 -> <<100 + i, 100 + i>>
      [] OTHER     -> <<>>

\* the stored text of length n
TextOf(n) == [i \in 1..n |-> i]

TextLens == {MaxPos - 1, MaxPos}

\* text[a:b] of Python for 0 <= a, 0 <= b (slices clamp to the length)
Min(a, b) == IF a <= b THEN a ELSE b

Slice(s, a, b) ==
    LET hi == Min(b, Len(s))
    IN  IF a >= hi THEN <<>> ELSE SubSeq(s, a + 1, hi)

\* p.as_posix() < q.as_posix(): lexicographic order of the path strings
RECURSIVE PosixLess(_, _)
PosixLess(p, q) ==
    IF q = <<>> THEN FALSE
    ELSE IF p = <<>> THEN TRUE
    ELSE IF Head(p) # Head(q) THEN Head(p) < Head(q)
    ELSE PosixLess(Tail(p), Tail(q))

\* ------------------------------------------------------------- outcomes
Returned(v) == [raised |-> FALSE, value |-> v, path |-> NoPath,
                kspan |-> NoSpan, espan |-> NoSpan]

\* ValueError("Overlapping edits on <path>: <kspan> vs <espan>")
Conflict(p, k, e) == [raised |-> TRUE, value |-> <<>>, path |-> p,
                      kspan |-> k, espan |-> e]

\* ValueError("Invalid or overlapping span: <espan>")
Invalid(e) == [raised |-> TRUE, value |-> <<>>, path |-> NoPath,
               kspan |-> NoSpan, espan |-> e]

NotRun == Returned(<<>>)

\* ----------------------------------------------------------- merge_edits
\* by_path[path]: the edits of one document, in collection order
by_path(es, p) == SelectSeq(es, LAMBDA e : e.path = p)

\* by_path.keys()
Keys(es) == {es[i].path : i \in 1..Len(es)}

\* mutant: the documents are taken in descending order of their strings
RECURSIVE SortedPaths_Descending(_)
SortedPaths_Descending(ps) ==
    IF ps = {} THEN <<>>
    ELSE LET p == CHOOSE x \in ps : \A y \in ps \ {x} : PosixLess(y, x)
         IN  <<p>> \o SortedPaths_Descending(ps \ {p})

\* sorted(by_path.keys(), key=lambda p: p.as_posix())
RECURSIVE SortedPaths(_)
SortedPaths(ps) ==
    IF ps = {} THEN <<>>
    ELSE LET p == CHOOSE x \in ps : \A y \in ps \ {x} : PosixLess(x, y)
         IN  <<p>> \o SortedPaths(ps \ {p})

\* mutant: the key is (start, end), inner edits first
KeyLeq_EndAscending(a, b) ==
    \/ a.span[1] < b.span[1]
    \/ a.span[1] = b.span[1] /\ a.span[2] <= b.span[2]

\* key(a) <= key(b) for key = (e.span[0], -e.span[1])
KeyLeq(a, b) ==
    \/ a.span[1] < b.span[1]
    \/ a.span[1] = b.span[1] /\ (0 - a.span[2]) <= (0 - b.span[2])

\* mutant: the sort is not stable, e goes before the elements of equal key
InsertOrdered_Unstable(s, e) ==
    LET k == Cardinality({i \in 1..Len(s) : KeyLeq(s[i], e) /\ ~KeyLeq(e, s[i])})
    IN  SubSeq(s, 1, k) \o <<e>> \o SubSeq(s, k + 1, Len(s))

\* one step of a stable sort: e goes behind every element whose key is <=
InsertOrdered(s, e) ==
    LET k == Cardinality({i \in 1..Len(s) : KeyLeq(s[i], e)})
    IN  SubSeq(s, 1, k) \o <<e>> \o SubSeq(s, k + 1, Len(s))

\* ordered = sorted(group, key=lambda e: (e.span[0], -e.span[1]))
RECURSIVE ordered(_)
ordered(group) ==
    IF group = <<>> THEN <<>>
    ELSE InsertOrdered(ordered(SubSeq(group, 1, Len(group) - 1)),
                       group[Len(group)])

\* mutant: an overlap of one character goes unnoticed
OverlapsKept_OffByOne(s, kt) == s + 1 < kt

\* mutant: an adjacent edit is taken for an overlapping one
OverlapsKept_Adjacent(s, kt) == s <= kt

\* if s < kt: the candidate overlaps the last kept edit
OverlapsKept(s, kt) == s < kt

\* mutant: an edit reaching one character past the kept one is dropped
ContainedInKept_Lenient(t, kt) == t <= kt + 1

\* mutant: an edit ending where the kept one ends is not contained
ContainedInKept_Strict(t, kt) == t < kt

\* if t <= kt: the candidate is fully contained, it is dropped
ContainedInKept(t, kt) == t <= kt

\* the loop "for e in ordered" from index i on, with the kept list so far
RECURSIVE Scan(_, _, _, _)
Scan(path, ord, i, kept) ==
    IF i > Len(ord) THEN Returned(kept)
    ELSE LET e == ord[i]
             s == e.span[1]
             t == e.span[2]
         IN  IF kept # <<>>
             THEN LET ks == kept[Len(kept)].span[1]
                      kt == kept[Len(kept)].span[2]
                  IN  IF OverlapsKept(s, kt)
                      THEN IF ContainedInKept(t, kt)
                           THEN Scan(path, ord, i + 1, kept)
                           ELSE Conflict(path, <<ks, kt>>, <<s, t>>)
                      ELSE Scan(path, ord, i + 1, Append(kept, e))
             ELSE Scan(path, ord, i + 1, Append(kept, e))

\* the loop over the sorted paths, with merged_all so far
RECURSIVE MergeFrom(_, _, _, _)
MergeFrom(es, paths, j, merged_all) ==
    IF j > Len(paths) THEN Returned(merged_all)
    ELSE LET r == Scan(paths[j], ordered(by_path(es, paths[j])), 1, <<>>)
         IN  IF r.raised THEN r
             ELSE MergeFrom(es, paths, j + 1, merged_all \o r.value)

merge_edits(es) == MergeFrom(es, SortedPaths(Keys(es)), 1, <<>>)

\* -------------------------------------------------- _apply_edits_to_text
\* mutant: the edits are sorted by ascending start
StartGeq_Ascending(a, b) == a.span[1] <= b.span[1]

\* key(a) >= key(b) for key = e.span[0]: the order of sorted(reverse=True)
StartGeq(a, b) == a.span[1] >= b.span[1]

\* one step of the stable descending sort
InsertDescending(s, e) ==
    LET k == Cardinality({i \in 1..Len(s) : StartGeq(s[i], e)})
    IN  SubSeq(s, 1, k) \o <<e>> \o SubSeq(s, k + 1, Len(s))

\* mutant: the edits are taken in the caller's order
descending_Unsorted(es) == es

\* sorted(edits, key=lambda e: e.span[0], reverse=True)
RECURSIVE descending(_)
descending(es) ==
    IF es = <<>> THEN <<>>
    ELSE InsertDescending(descending(SubSeq(es, 1, Len(es) - 1)),
                          es[Len(es)])

\* mutant: a span ending at the boundary is refused
SpanValid_Strict(s, t, last_end) == 0 <= s /\ s <= t /\ t < last_end

\* 0 <= s <= t <= last_end
SpanValid(s, t, last_end) == 0 <= s /\ s <= t /\ t <= last_end

\* mutant: the character at the end offset is removed too
Splice_OffByOne(o, s, t, r) == Slice(o, 0, s) \o r \o Slice(o, t + 1, Len(o))

\* out[:s] + e.replacement + out[t:]
Splice(o, s, t, r) == Slice(o, 0, s) \o r \o Slice(o, t, Len(o))

\* mutant: the boundary is never tightened
NextBoundary_Kept(s, last_end) == last_end

\* last_end = s: the boundary of the next edit
NextBoundary(s, last_end) == s

\* the loop "for e in ordered" from index i on
RECURSIVE Patch(_, _, _, _)
Patch(ord, i, o, last_end) ==
    IF i > Len(ord) THEN Returned(o)
    ELSE LET s == ord[i].span[1]
             t == ord[i].span[2]
         IN  IF ~SpanValid(s, t, last_end) THEN Invalid(<<s, t>>)
             ELSE Patch(ord, i + 1, Splice(o, s, t, ord[i].replacement),
                        NextBoundary(s, last_end))

_apply_edits_to_text(txt, es) == Patch(descending(es), 1, txt, Len(txt))

\* ---------------------------------------------------------------- storage
\* a document that is not in storage: read_text raises
Missing == [present |-> FALSE, text |-> <<>>]

Stored(txt) == [present |-> TRUE, text |-> txt]

\* the stores a pass may start from: "ab" is stored with one of the two
\* text lengths, "b" is missing or stored with one of them
Stores ==
    {[p \in Paths |-> IF p = <<1, 2>> THEN a ELSE b] :
        a \in {Stored(TextOf(n)) : n \in TextLens},
        b \in {Missing} \cup {Stored(TextOf(n)) : n \in TextLens}}

\* the spans of the edits collected for a pass over storage: two that
\* overlap partially, the second reaching past the shorter text, and for
\* "ab" an insertion inside the first
StoreSpans(p) ==
    {<<0, MaxPos - 1>>, <<1, MaxPos>>}
        \cup (IF p = <<1, 2>> THEN {<<1, 1>>} ELSE {})

\* no pass has been called yet
NoCall == [op |-> "none", status |-> "idle", previews |-> <<>>,
           store |-> <<>>]

NoAccess == [p \in Paths |-> 0]

\* by_path[Path(e.path)].append(e): the keys of the dict in insertion order
RECURSIVE Documents(_)
Documents(es) ==
    IF es = <<>> THEN <<>>
    ELSE LET front == Documents(SubSeq(es, 1, Len(es) - 1))
             p     == es[Len(es)].path
         IN  IF \E i \in 1..Len(front) : front[i] = p
             THEN front
             ELSE Append(front, p)

\* mutant: the documents sorted before the conflicting one are processed
PassDocuments_BestEffort(m, es) ==
    IF m.raised
    THEN SelectSeq(Documents(es), LAMBDA p : PosixLess(p, m.path))
    ELSE Documents(m.value)

\* mutant: every known document is processed, edited or not
PassDocuments_Everything(m, es) ==
    IF m.raised THEN <<>> ELSE SortedPaths(Paths)

\* the documents the loop of a pass iterates over: merge_edits is called
\* before the loop, so when it raises the loop is not reached
PassDocuments(m, es) ==
    IF m.raised THEN <<>> ELSE Documents(m.value)

\* mutant: the preview pass writes what it computed
Writes_Always(o) == TRUE

\* mutant: no pass writes
Writes_Never(o) == FALSE

\* only apply_edits_in_place calls write_text
Writes(o) == o = "persist"

\* text = path.read_text(encoding="utf-8")
ReadText(st, p) == st[p].text

\* what write_text may leave behind: the new text, or when it fails the old
\* text (the file could not be opened) or a proper prefix of the new text
\* (the file was truncated and the write broke off)
WriteOutcomes(old, new) ==
    {new, old} \cup {SubSeq(new, 1, k) : k \in 0..(Len(new) - 1)}

\* mutant: a failing pass puts back what storage held when it began
OnError_Rollback(st, bef) == bef

\* an exception leaves the loop; what was written stays written
OnError(st, bef) == st

\* the outcome of one iteration of the loop for document p with the edits
\* group: the status, the patched text and the text write_text leaves (w)
Iteration(st, bef, o, p, group, w) ==
    IF ~st[p].present
    THEN [status |-> "read_error", new |-> <<>>, store |-> OnError(st, bef)]
    ELSE LET old == ReadText(st, p)
             r   == _apply_edits_to_text(old, group)
         IN  IF r.raised
             THEN [status |-> "span_error", new |-> <<>>,
                   store |-> OnError(st, bef)]
             ELSE IF ~Writes(o)
             THEN [status |-> "ok", new |-> r.value, store |-> st]
             ELSE IF w = r.value
             THEN [status |-> "ok", new |-> r.value,
                   store |-> [st EXCEPT ![p] = Stored(r.value)]]
             ELSE [status |-> "write_error", new |-> r.value,
                   store |-> OnError([st EXCEPT ![p] = Stored(w)], bef)]

\* the store and the bookkeeping of the passes while none is called
StoreIdle ==
    /\ op = "none"
    /\ queue = <<>>
    /\ previews = <<>>
    /\ status = "idle"
    /\ reads = NoAccess
    /\ writes = NoAccess
    /\ prev = NoCall
    /\ run = 0

\* -------------------------------------------------------------- decisions
\* code points of the names below: a = 1, b = 2, ':' = 3, f = 4, g = 5, and
\* 0 for the wildcard '*' of a pattern
Colon == 3

Star == 0

\* the nodes of the parsed file, in the order of doc.nodes: the module and
\* its two functions
Nodes == <<"module", "f", "g">>

\* node.kind
Kind(n) == IF n = "module" THEN "py:module" ELSE "py:function"

\* node.qual: "b" for the module, "b:f" and "b:g" for the functions
Qual(n) ==
    IF n = "module" THEN <<2>>
    ELSE IF n = "f" THEN <<2, Colon, 4>>
    ELSE <<2, Colon, 5>>

\* _path_candidates(path, roots): the file as "ab" and, relative to a root,
\* as "b"
PathCandidates == {<<1, 2>>, <<2>>}

\* _qual_candidates(node, roots): the path part of the qualname is relative
\* and lies under no root, so the only variant is the qualname itself
QualCandidates(n) == {Qual(n)}

\* the patterns a rule may carry: "*", "b", "a", "b:g", "b:*"
Patterns == {<<Star>>, <<2>>, <<1>>, <<2, Colon, 5>>, <<2, Colon, Star>>}

Modes == {"full", "sig", "hide", "file:no-imports"}

Defaults == {"full", "sig"}

\* fnmatch.fnmatchcase(s, pat) for patterns of literals and '*'
RECURSIVE fnmatchcase(_, _)
fnmatchcase(s, pat) ==
    IF pat = <<>> THEN s = <<>>
    ELSE IF Head(pat) = Star
    THEN \/ fnmatchcase(s, Tail(pat))
         \/ s # <<>> /\ fnmatchcase(Tail(s), pat)
    ELSE /\ s # <<>>
         /\ Head(s) = Head(pat)
         /\ fnmatchcase(Tail(s), Tail(pat))

\* ":" in r.match
HasColon(pat) == \E i \in 1..Len(pat) : pat[i] = Colon

\* to_action(mode): the action's kind is the mode
to_action(mode) == [kind |-> mode]

\* a.kind.startswith("file:")
IsFileLevel(a) == a.kind = "file:no-imports"

\* mutant: a file-level action is returned for any node
TakesEffectOn_AnyNode(a, n) == TRUE

\* a path rule's action is returned for the node unless it is file-level
\* and the node is not a document root
TakesEffectOn(a, n) ==
    IsFileLevel(a) => Kind(n) \in {"py:module", "md:doc"}

\* step 1: the first qualname rule matching a variant of node.qual
RECURSIVE QualRule(_, _, _)
QualRule(n, rs, i) ==
    IF i > Len(rs) THEN 0
    ELSE IF /\ HasColon(rs[i].match)
            /\ \E q \in QualCandidates(n) : fnmatchcase(q, rs[i].match)
    THEN i
    ELSE QualRule(n, rs, i + 1)

\* step 2: the first path rule matching a path candidate whose action takes
\* effect on the node
RECURSIVE PathRule(_, _, _)
PathRule(n, rs, i) ==
    IF i > Len(rs) THEN 0
    ELSE IF /\ ~HasColon(rs[i].match)
            /\ \E c \in PathCandidates : fnmatchcase(c, rs[i].match)
            /\ TakesEffectOn(to_action(rs[i].mode), n)
    THEN i
    ELSE PathRule(n, rs, i + 1)

_decide_for_node(n, rs, dflt) ==
    IF QualRule(n, rs, 1) # 0 THEN to_action(rs[QualRule(n, rs, 1)].mode)
    ELSE IF PathRule(n, rs, 1) # 0 THEN to_action(rs[PathRule(n, rs, 1)].mode)
    ELSE to_action(dflt)

\* _mode_of_action(a): None for a file-level action
_mode_of_action(a) == IF IsFileLevel(a) THEN "None" ELSE a.kind

\* PythonMinEngine.supports(action)
supports(a) ==
    \/ _mode_of_action(a) \in {"full", "hide", "sig", "sig+doc"}
    \/ a.kind = "levels"
    \/ a.kind \in {"file:no-imports"}

\* what PythonMinEngine.render does for one (node, action) pair: the
\* imports of the module are dropped, the module or the definition is
\* replaced by an omission marker, the definition is contracted to its
\* signature, or nothing is produced and the node's text stays in full
render(n, a) ==
    IF Kind(n) = "py:module" /\ a.kind = "file:no-imports"
    THEN "imports dropped"
    ELSE IF _mode_of_action(a) \in {"None", "full"} THEN "full"
    ELSE IF Kind(n) = "py:module" /\ _mode_of_action(a) = "hide"
    THEN "module omitted"
    ELSE IF _mode_of_action(a) = "hide" THEN "definition omitted"
    ELSE IF Kind(n) = "py:function" THEN "signature"
    ELSE "full"

\* the decisions while no file is being decided
DecideIdle ==
    /\ rules = <<>>
    /\ default = "full"
    /\ todo = <<>>
    /\ decisions = <<>>
    /\ rendered = <<>>

\* ----------------------------------------------------------- build_prompt
\* discovered.sort(key=lambda p: p.as_posix()): the stored files
Discovered(st) == SortedPaths({p \in Paths : st[p].present})

\* the spans engine.render may compute from a text of length n: the whole
\* module, span (0, len(doc.text)), or a definition from offset 1 to the end
RenderSpans(n) == {<<0, n>>, <<1, n>>}

\* what another writer may leave in a file: the text without its last
\* character, or the text behind a new first character
Rewrites(txt) ==
    {SubSeq(txt, 1, Len(txt) - 1), <<50>> \o txt}

\* the pack loop reuses docs_text, without re-reading from disk
PackSource(st, dt, p) == dt[p]

\* shown = previews.get(path, docs_text[path])
Shown(pv, st, dt, p) ==
    IF p \in DOMAIN pv THEN pv[p] ELSE PackSource(st, dt, p)

\* build_prompt is not running
PromptIdle ==
    /\ pending = <<>>
    /\ docs_text = <<>>
    /\ loaded = NoAccess
    /\ foreign = {}
    /\ shown = <<>>

\* ----------------------------------------------------------- Python engine
\* the file the engines parse
EnginePath == <<2>>

\* what a line of the Python file holds: a top-level import statement,
\* nothing, the header of a top-level class, a one-line method of the class
\* above it, or a one-line top-level function
LineKinds == {"import", "blank", "class", "member", "def"}

\* a class has at least one method, methods follow their class, and the
\* file does not end with a blank line
WellFormed(ly) ==
    /\ ly[1] # "member"
    /\ ly[Len(ly)] \notin {"blank", "class"}
    /\ \A i \in 2..Len(ly) :
          ly[i] = "member" => ly[i - 1] \in {"class", "member"}
    /\ \A i \in 1..(Len(ly) - 1) :
          ly[i] = "class" => ly[i + 1] = "member"

Layouts ==
    {ly \in UNION {[1..n -> LineKinds] : n \in 1..MaxLines} : WellFormed(ly)}

\* the characters of line i: its content, two characters unless the line is
\* blank, and its newline
LineLen(ly, tr, i) ==
    (IF ly[i] = "blank" THEN 0 ELSE 2)
        + (IF i < Len(ly) \/ tr THEN 1 ELSE 0)

\* _line_starts(text)[k]: the offset at which line k + 1 starts
RECURSIVE _line_starts(_, _, _)
_line_starts(ly, tr, k) ==
    IF k = 0 THEN 0
    ELSE _line_starts(ly, tr, k - 1) + LineLen(ly, tr, k)

\* len(text)
SourceLen(ly, tr) == _line_starts(ly, tr, Len(ly))

\* _line_span_to_char_span(ls, start_line, end_line)
_line_span_to_char_span(ly, tr, start_line, end_line) ==
    <<_line_starts(ly, tr, start_line - 1), _line_starts(ly, tr, end_line)>>

\* node.end_lineno of the class whose header is line c: its last method
EndLine(ly, c) ==
    CHOOSE e \in c..Len(ly) :
        /\ \A i \in (c + 1)..e : ly[i] = "member"
        /\ e = Len(ly) \/ ly[e + 1] # "member"

\* _ClassVisitor.visit_ClassDef: from the start of the class's first line
\* to end_col_offset in its last line, the newline left out
ClassSpan(ly, tr, c) ==
    <<_line_starts(ly, tr, c - 1),
      _line_starts(ly, tr, EndLine(ly, c) - 1) + 2>>

\* the lines a_ln..b_ln that _replacement_for_mode replaces for the
\* one-line definition at line m
ReplacedLines(ly, m) == <<m, m>>

\* span = _line_span_to_char_span(ls, a_ln, b_ln)
DefinitionSpan(ly, tr, m) ==
    _line_span_to_char_span(ly, tr, ReplacedLines(ly, m)[1],
                            ReplacedLines(ly, m)[2])

\* the last line of the import block at the top of the module, 0 if the
\* first statement is no import
LeadingImportsEnd(ly) ==
    LET S == {i \in 1..Len(ly) :
                 /\ ly[i] = "import"
                 /\ \A j \in 1..i : ly[j] \in {"import", "blank"}}
    IN  IF S = {} THEN 0 ELSE CHOOSE i \in S : \A j \in S : j <= i

\* step 5 of _compute_marker_insert_pos: the first line from line k on that
\* is not blank, Len(ly) + 1 if there is none
RECURSIVE SkipBlank(_, _)
SkipBlank(ly, k) ==
    IF k > Len(ly) THEN k
    ELSE IF ly[k] = "blank" THEN SkipBlank(ly, k + 1)
    ELSE k

\* _compute_marker_insert_pos: behind the leading import block and the
\* blank lines after it
_compute_marker_insert_pos(ly, tr) ==
    _line_starts(ly, tr, SkipBlank(ly, LeadingImportsEnd(ly) + 1) - 1)

\* the replacement texts of the rendered edits
Marker == <<99>>

ClassOmitted == <<98>>

Contracted == <<97>>

ModuleOmitted == <<96>>

\* the deletions of the top-level imports, in line order
RECURSIVE ImportDeletions(_, _, _)
ImportDeletions(ly, tr, i) ==
    IF i > Len(ly) THEN <<>>
    ELSE (IF ly[i] = "import"
          THEN <<Edit(EnginePath, _line_span_to_char_span(ly, tr, i, i),
                      <<>>)>>
          ELSE <<>>) \o ImportDeletions(ly, tr, i + 1)

MarkerEdit(ly, tr) ==
    Edit(EnginePath,
         <<_compute_marker_insert_pos(ly, tr),
           _compute_marker_insert_pos(ly, tr)>>,
         Marker)

\* _drop_top_level_imports_with_marker(source, path)
_drop_top_level_imports_with_marker(ly, tr) ==
    IF \E i \in 1..Len(ly) : ly[i] = "import"
    THEN ImportDeletions(ly, tr, 1) \o <<MarkerEdit(ly, tr)>>
    ELSE <<>>

\* the nodes of the parsed file: 0 for the module, and the first line of
\* every class, method and function
PyNodes(ly) ==
    <<0>> \o SelectSeq([i \in 1..Len(ly) |-> i],
                       LAMBDA i : ly[i] \in {"class", "member", "def"})

PyActions == {"full", "hide", "file:no-imports"}

\* the edits PythonMinEngine.render appends for node n decided as kind a
PyCandidates(ly, tr, n, a) ==
    IF n = 0 /\ a = "file:no-imports"
    THEN _drop_top_level_imports_with_marker(ly, tr)
    ELSE IF _mode_of_action([kind |-> a]) \in {"None", "full"} THEN <<>>
    ELSE IF n = 0
    THEN <<Edit(EnginePath, <<0, SourceLen(ly, tr)>>, ModuleOmitted)>>
    ELSE IF ly[n] = "class"
    THEN <<Edit(EnginePath, ClassSpan(ly, tr, n), ClassOmitted)>>
    ELSE <<Edit(EnginePath, DefinitionSpan(ly, tr, n), Contracted)>>

\* ---------------------------------------- the spans of the Markdown engine
\* A Markdown text is given by its lines: 0 is a line of prose, k > 0 a
\* heading line of k hashes, a blank and a title, the lines _HEADING_RE
\* matches.
MdPath == <<2>>

MdTexts == UNION {[1..n -> 0..MaxLevel] : n \in 0..MaxMdLines}

\* len(line) with its newline: "x\n" for prose, "## t\n" for a heading
MdLineLen(ml, i) == IF ml[i] = 0 THEN 2 ELSE ml[i] + 3

\* the offset at which line k + 1 starts: m.start() of a heading there
RECURSIVE MdLineStart(_, _)
MdLineStart(ml, k) ==
    IF k = 0 THEN 0 ELSE MdLineStart(ml, k - 1) + MdLineLen(ml, k)

\* len(text)
MdLen(ml) == MdLineStart(ml, Len(ml))

\* the lines of the headings collected by finditer, in text order
Headings(ml) == {i \in 1..Len(ml) : ml[i] > 0}

\* a section stops at the next heading of the same level only
Closes_SameLevel(nxt_lvl, lvl) == nxt_lvl = lvl

\* if nxt_lvl <= lvl: the next heading that ends the section of level lvl
Closes(nxt_lvl, lvl) == nxt_lvl <= lvl

\* end_char of the section whose heading is line i: the start of the first
\* later heading that closes it, len(text) when there is none
SectionEnd(ml, i) ==
    LET closing == {j \in Headings(ml) : j > i /\ Closes(ml[j], ml[i])}
    IN  IF closing = {} THEN MdLen(ml)
        ELSE MdLineStart(ml, (CHOOSE j \in closing :
                                 \A k \in closing : j <= k) - 1)

\* span=(start_char, end_char) of the MD_HEADING node of line i
SectionSpan(ml, i) == <<MdLineStart(ml, i - 1), SectionEnd(ml, i)>>

\* the nodes of the parsed text: 0 for the MD_DOC root, then the heading
\* lines
MdNodes(ml) ==
    <<0>> \o SelectSeq([i \in 1..Len(ml) |-> i], LAMBDA i : ml[i] > 0)

\* MarkdownMinEngine.supports
MdActions == {"hide", "full"}

\* the edits MarkdownMinEngine.render appends for node n decided as kind a
MdCandidates(ml, n, a) ==
    IF a = "full" THEN <<>>
    ELSE IF n = 0 THEN <<Edit(MdPath, <<0, MdLen(ml)>>, <<>>)>>
    ELSE <<Edit(MdPath, SectionSpan(ml, n), <<>>)>>

\* no engine has parsed a file
EngineIdle ==
    /\ py_lines = <<>>
    /\ trailing = FALSE
    /\ md_lines = <<>>
    /\ remaining = <<>>

\* ------------------------------------------------------------- behaviour
Init ==
    /\ edits = <<>>
    /\ pc = "collect"
    /\ merged = NotRun
    /\ doc = NoPath
    /\ text = <<>>
    /\ out = NotRun
    /\ store = [p \in Paths |-> Missing]
    /\ before = [p \in Paths |-> Missing]
    /\ StoreIdle
    /\ DecideIdle
    /\ PromptIdle
    /\ EngineIdle

\* the caller collects one more candidate edit
AddEdit(p, sp) ==
    /\ pc = "collect"
    /\ Len(edits) < MaxEdits
    /\ edits' = Append(edits, Edit(p, sp, ReplacementOf(Len(edits) + 1)))
    /\ UNCHANGED <<pc, merged, doc, text, out>>
    /\ UNCHANGED svars
    /\ UNCHANGED dvars
    /\ UNCHANGED pvars
    /\ UNCHANGED evars

\* merged = merge_edits(list(edits))
Merge ==
    /\ pc = "collect"
    /\ merged' = merge_edits(edits)
    /\ pc' = "merged"
    /\ UNCHANGED <<edits, doc, text, out>>
    /\ UNCHANGED svars
    /\ UNCHANGED dvars
    /\ UNCHANGED pvars
    /\ UNCHANGED evars

\* the resolved group of one document is applied to that document's text
Apply(p, n) ==
    /\ pc = "merged"
    /\ ~merged.raised
    /\ p \in Keys(merged.value)
    /\ doc' = p
    /\ text' = TextOf(n)
    /\ out' = _apply_edits_to_text(TextOf(n), by_path(merged.value, p))
    /\ pc' = "applied"
    /\ UNCHANGED <<edits, merged>>
    /\ UNCHANGED svars
    /\ UNCHANGED dvars
    /\ UNCHANGED pvars
    /\ UNCHANGED evars

\* a caller hands its own list for one document straight to the patcher
PatchDirect(n) ==
    /\ pc = "collect"
    /\ Cardinality(Keys(edits)) <= 1
    /\ doc' = IF edits = <<>> THEN NoPath ELSE edits[1].path
    /\ text' = TextOf(n)
    /\ out' = _apply_edits_to_text(TextOf(n), edits)
    /\ pc' = "patched"
    /\ UNCHANGED <<edits, merged>>
    /\ UNCHANGED svars
    /\ UNCHANGED dvars
    /\ UNCHANGED pvars
    /\ UNCHANGED evars

Next ==
    \/ \E p \in Paths : \E sp \in SpansOf(p) : AddEdit(p, sp)
    \/ Merge
    \/ \E p \in Paths, n \in TextLens : Apply(p, n)
    \/ \E n \in TextLens : PatchDirect(n)

Spec == Init /\ [][Next]_vars

\* ------------------------------------------------- the passes over storage
\* the documents are in storage before the edits are collected
StoreInit ==
    /\ edits = <<>>
    /\ pc = "collect"
    /\ merged = NotRun
    /\ doc = NoPath
    /\ text = <<>>
    /\ out = NotRun
    /\ store \in Stores
    /\ before = store
    /\ StoreIdle
    /\ DecideIdle
    /\ PromptIdle
    /\ EngineIdle

\* apply_edits_preview(edits) or apply_edits_in_place(edits) is called:
\* merge_edits, then the grouping by path
Begin(o) ==
    /\ pc \in {"collect", "done"}
    /\ run < MaxRuns
    /\ run' = run + 1
    /\ op' = o
    /\ prev' = IF run = 0 THEN NoCall
               ELSE [op |-> op, status |-> status, previews |-> previews,
                     store |-> store]
    /\ before' = store
    /\ merged' = merge_edits(edits)
    /\ queue' = PassDocuments(merged', edits)
    /\ previews' = <<>>
    /\ reads' = NoAccess
    /\ writes' = NoAccess
    /\ status' = IF merged'.raised THEN "conflict"
                 ELSE IF queue' = <<>> THEN "returned"
                 ELSE "running"
    /\ pc' = IF queue' = <<>> THEN "done" ELSE "running"
    /\ UNCHANGED <<edits, store, doc, text, out>>
    /\ UNCHANGED dvars
    /\ UNCHANGED pvars
    /\ UNCHANGED evars

\* one iteration of "for path, group in by_path.items()": read, patch and,
\* in apply_edits_in_place, write
Step ==
    /\ pc = "running"
    /\ queue # <<>>
    /\ LET p     == Head(queue)
           group == by_path(merged.value, p)
           new   == Iteration(store, before, op, p, group, <<>>).new
       IN  \E w \in WriteOutcomes(store[p].text, new) :
              LET it == Iteration(store, before, op, p, group, w)
              IN  /\ store' = it.store
                  /\ reads' = [reads EXCEPT ![p] = @ + 1]
                  /\ writes' = IF Writes(op) /\ it.status \in
                                                  {"ok", "write_error"}
                               THEN [writes EXCEPT ![p] = @ + 1]
                               ELSE writes
                  /\ previews' =
                        IF it.status = "ok" /\ op = "preview"
                        THEN [q \in DOMAIN previews \cup {p} |->
                                 IF q = p THEN it.new ELSE previews[q]]
                        ELSE previews
                  /\ queue' = IF it.status = "ok" THEN Tail(queue) ELSE queue
                  /\ status' = IF it.status # "ok" THEN it.status
                               ELSE IF Tail(queue) = <<>> /\ status = "running"
                               THEN "returned"
                               ELSE status
                  /\ pc' = IF it.status # "ok" \/ Tail(queue) = <<>>
                           THEN "done" ELSE "running"
    /\ UNCHANGED <<edits, merged, doc, text, out, op, before, prev, run>>
    /\ UNCHANGED dvars
    /\ UNCHANGED pvars
    /\ UNCHANGED evars

StoreNext ==
    \/ \E p \in Paths : \E sp \in StoreSpans(p) : AddEdit(p, sp)
    \/ \E o \in {"preview", "persist"} : Begin(o)
    \/ Step

StoreSpec == StoreInit /\ [][StoreNext]_vars

\* ----------------------------------------------- the decisions for one file
\* a configuration without rules, and the nodes of the parsed file
DecideInit ==
    /\ edits = <<>>
    /\ pc = "config"
    /\ merged = NotRun
    /\ doc = NoPath
    /\ text = <<>>
    /\ out = NotRun
    /\ store = [p \in Paths |-> Missing]
    /\ before = [p \in Paths |-> Missing]
    /\ StoreIdle
    /\ rules = <<>>
    /\ default \in Defaults
    /\ todo = Nodes
    /\ decisions = <<>>
    /\ rendered = <<>>
    /\ PromptIdle
    /\ EngineIdle

\* the configuration gets one more rule
AddRule(pat, mode) ==
    /\ pc = "config"
    /\ Len(rules) < MaxRules
    /\ rules' = Append(rules, [match |-> pat, mode |-> mode])
    /\ UNCHANGED <<default, todo, decisions, rendered>>
    /\ UNCHANGED <<edits, pc, merged, doc, text, out>>
    /\ UNCHANGED svars
    /\ UNCHANGED pvars
    /\ UNCHANGED evars

\* one iteration of "for node in doc.nodes": the action is decided and, if
\* the engine supports it, the pair is appended to decisions
Decide ==
    /\ pc \in {"config", "deciding"}
    /\ todo # <<>>
    /\ LET n == Head(todo)
           a == _decide_for_node(n, rules, default)
       IN  decisions' = IF supports(a)
                        THEN Append(decisions, [node |-> n, action |-> a])
                        ELSE decisions
    /\ todo' = Tail(todo)
    /\ pc' = "deciding"
    /\ UNCHANGED <<rules, default, rendered>>
    /\ UNCHANGED <<edits, merged, doc, text, out>>
    /\ UNCHANGED svars
    /\ UNCHANGED pvars
    /\ UNCHANGED evars

\* engine.render(doc, decisions)
Render ==
    /\ pc = "deciding"
    /\ todo = <<>>
    /\ rendered' = [i \in 1..Len(decisions) |->
                       [node |-> decisions[i].node,
                        as   |-> render(decisions[i].node,
                                        decisions[i].action)]]
    /\ pc' = "rendered"
    /\ UNCHANGED <<rules, default, todo, decisions>>
    /\ UNCHANGED <<edits, merged, doc, text, out>>
    /\ UNCHANGED svars
    /\ UNCHANGED pvars
    /\ UNCHANGED evars

DecideNext ==
    \/ \E pat \in Patterns, mode \in Modes : AddRule(pat, mode)
    \/ Decide
    \/ Render

DecideSpec == DecideInit /\ [][DecideNext]_vars

\* ------------------------------------------------- the pass of build_prompt
\* the files are stored; build_prompt has discovered and sorted them
PromptInit ==
    /\ edits = <<>>
    /\ pc = "parse"
    /\ merged = NotRun
    /\ doc = NoPath
    /\ text = <<>>
    /\ out = NotRun
    /\ store \in Stores
    /\ before = store
    /\ StoreIdle
    /\ DecideIdle
    /\ pending = Discovered(store)
    /\ docs_text = <<>>
    /\ loaded = NoAccess
    /\ foreign = {}
    /\ shown = <<>>
    /\ EngineIdle

\* one iteration of the parse loop: the file is read, parsed, and the
\* engine renders no edit or one edit (hidden = FALSE or TRUE) whose span sp
\* it computes from the text read
ParseFile(hidden, sp) ==
    /\ pc = "parse"
    /\ pending # <<>>
    /\ LET p   == Head(pending)
           txt == ReadText(store, p)
       IN  /\ sp \in RenderSpans(Len(txt))
           /\ docs_text' = [q \in DOMAIN docs_text \cup {p} |->
                               IF q = p THEN txt ELSE docs_text[q]]
           /\ loaded' = [loaded EXCEPT ![p] = @ + 1]
           /\ edits' = IF hidden
                       THEN Append(edits,
                                   Edit(p, sp, ReplacementOf(Len(edits) + 1)))
                       ELSE edits
    /\ pending' = Tail(pending)
    /\ UNCHANGED <<pc, merged, doc, text, out, foreign, shown>>
    /\ UNCHANGED svars
    /\ UNCHANGED dvars
    /\ UNCHANGED evars

\* all_edits = merge_edits(all_edits)
ResolveAll ==
    /\ pc = "parse"
    /\ pending = <<>>
    /\ merged' = merge_edits(edits)
    /\ edits' = IF merged'.raised THEN edits ELSE merged'.value
    /\ pc' = IF merged'.raised THEN "failed" ELSE "collect"
    /\ UNCHANGED <<doc, text, out>>
    /\ UNCHANGED svars
    /\ UNCHANGED dvars
    /\ UNCHANGED pvars
    /\ UNCHANGED evars

\* previews = apply_edits_preview(all_edits) is called
Preview ==
    /\ run = 0
    /\ Begin("preview")

\* the pack loop: shown = previews.get(path, docs_text[path])
Pack ==
    /\ pc = "done"
    /\ status = "returned"
    /\ shown' = [p \in DOMAIN docs_text |->
                    Shown(previews, store, docs_text, p)]
    /\ pc' = "packed"
    /\ UNCHANGED <<edits, merged, doc, text, out>>
    /\ UNCHANGED <<pending, docs_text, loaded, foreign>>
    /\ UNCHANGED svars
    /\ UNCHANGED dvars
    /\ UNCHANGED evars

\* another writer rewrites a stored file while build_prompt runs
Interfere(p) ==
    /\ pc \in {"parse", "collect", "running"}
    /\ p \notin foreign
    /\ store[p].present
    /\ \E txt \in Rewrites(store[p].text) :
          store' = [store EXCEPT ![p] = Stored(txt)]
    /\ foreign' = foreign \cup {p}
    /\ UNCHANGED <<edits, pc, merged, doc, text, out>>
    /\ UNCHANGED <<op, queue, previews, status, reads, writes, before, prev,
                   run>>
    /\ UNCHANGED <<pending, docs_text, loaded, shown>>
    /\ UNCHANGED dvars
    /\ UNCHANGED evars

PromptNext ==
    \/ \E hidden \in BOOLEAN : \E sp \in Spans : ParseFile(hidden, sp)
    \/ ResolveAll
    \/ Preview
    \/ Step
    \/ Pack
    \/ \E p \in Paths : Interfere(p)

PromptSpec == PromptInit /\ [][PromptNext]_vars

\* ------------------------------------------ the edits of the Python engine
\* the engine has parsed a Python file; no decision is rendered yet
PyInit ==
    /\ edits = <<>>
    /\ pc = "collect"
    /\ merged = NotRun
    /\ doc = NoPath
    /\ text = <<>>
    /\ out = NotRun
    /\ store = [p \in Paths |-> Missing]
    /\ before = [p \in Paths |-> Missing]
    /\ StoreIdle
    /\ DecideIdle
    /\ PromptIdle
    /\ py_lines \in Layouts
    /\ trailing \in BOOLEAN
    /\ md_lines = <<>>
    /\ remaining = PyNodes(py_lines)

\* one iteration of "for node, action in decisions" of
\* PythonMinEngine.render
PyRender(a) ==
    /\ pc = "collect"
    /\ remaining # <<>>
    /\ edits' = edits \o PyCandidates(py_lines, trailing, Head(remaining), a)
    /\ remaining' = Tail(remaining)
    /\ UNCHANGED <<pc, merged, doc, text, out, py_lines, trailing, md_lines>>
    /\ UNCHANGED svars
    /\ UNCHANGED dvars
    /\ UNCHANGED pvars

\* the rendered edits are resolved once every node is rendered
PyMerge ==
    /\ remaining = <<>>
    /\ Merge

\* the resolved edits are applied to the text of the file
PyApply ==
    Apply(EnginePath, SourceLen(py_lines, trailing))

PyNext ==
    \/ \E a \in PyActions : PyRender(a)
    \/ PyMerge
    \/ PyApply

PySpec == PyInit /\ [][PyNext]_vars

\* ---------------------------------------- the edits of the Markdown engine
\* the engine has parsed a Markdown text; no decision is rendered yet
MdInit ==
    /\ edits = <<>>
    /\ pc = "collect"
    /\ merged = NotRun
    /\ doc = NoPath
    /\ text = <<>>
    /\ out = NotRun
    /\ store = [p \in Paths |-> Missing]
    /\ before = [p \in Paths |-> Missing]
    /\ StoreIdle
    /\ DecideIdle
    /\ PromptIdle
    /\ py_lines = <<>>
    /\ trailing = FALSE
    /\ md_lines \in MdTexts
    /\ remaining = MdNodes(md_lines)

\* one iteration of "for node, action in decisions" of
\* MarkdownMinEngine.render
MdRender(a) ==
    /\ pc = "collect"
    /\ remaining # <<>>
    /\ edits' = edits \o MdCandidates(md_lines, Head(remaining), a)
    /\ remaining' = Tail(remaining)
    /\ UNCHANGED <<pc, merged, doc, text, out, py_lines, trailing, md_lines>>
    /\ UNCHANGED svars
    /\ UNCHANGED dvars
    /\ UNCHANGED pvars

\* the rendered edits are resolved once every node is rendered
MdMerge ==
    /\ remaining = <<>>
    /\ Merge

MdNext ==
    \/ \E a \in MdActions : MdRender(a)
    \/ MdMerge

MdSpec == MdInit /\ [][MdNext]_vars

\* ------------------------------------------------- vocabulary of the claims
Start(e) == e.span[1]

End(e) == e.span[2]

IsEmpty(e) == Start(e) = End(e)

\* a's span contains b's span
Contains(a, b) == Start(a) <= Start(b) /\ End(b) <= End(a)

\* a and b overlap partially: a.start < b.start < a.end < b.end
PartialOverlap(a, b) ==
    Start(a) < Start(b) /\ Start(b) < End(a) /\ End(a) < End(b)

\* one ends where or before the other starts
Disjoint(a, b) == End(a) <= Start(b) \/ End(b) <= Start(a)

\* the merge has run
Resolved == pc \in {"merged", "applied"}

\* all collected edits are on one document
OneDocument == Cardinality(Keys(edits)) = 1

Count(sq, e) == Cardinality({i \in 1..Len(sq) : sq[i] = e})

\* a and b hold the same edits the same number of times
SameBag(a, b) ==
    /\ Len(a) = Len(b)
    /\ \A i \in 1..Len(a) : Count(a, a[i]) = Count(b, a[i])

AscendingStart(g) ==
    \A i, j \in 1..Len(g) : i < j => Start(g[i]) <= Start(g[j])

\* ------------------------------------------------------------------- C1
\* C1: when merge_edits returns, the edits returned for each document are
\* in ascending start order and pairwise non-overlapping: for two returned
\* edits i before j of one document, end(i) <= start(j).
C1_SortedNonOverlapping ==
    (Resolved /\ ~merged.raised) =>
        \A p \in Paths :
            LET g == by_path(merged.value, p)
            IN  \A i, j \in 1..Len(g) :
                    i < j => /\ Start(g[i]) <= Start(g[j])
                             /\ End(g[i]) <= Start(g[j])

\* a merge that returned, kept two edits of one document and dropped one
C1_Witness ==
    /\ pc = "merged"
    /\ ~merged.raised
    /\ Len(merged.value) < Len(edits)
    /\ \E p \in Paths : Len(by_path(merged.value, p)) >= 2

\* ------------------------------------------------------------------- C2
\* C2: for A, B on one document with A.start < B.start < A.end < B.end,
\* merging exactly {A, B}, in either input order, raises the conflict error
\* naming the document, A's span and B's span, and returns no list.
C2_PartialOverlapRejected ==
    (Resolved /\ Len(edits) = 2 /\ OneDocument) =>
        \A i, j \in 1..2 :
            PartialOverlap(edits[i], edits[j]) =>
                /\ merged.raised
                /\ merged.value = <<>>
                /\ merged.path = edits[i].path
                /\ merged.kspan = edits[i].span
                /\ merged.espan = edits[j].span

\* the pair was collected with the later-starting edit first
C2_Witness ==
    /\ pc = "merged"
    /\ Len(edits) = 2
    /\ OneDocument
    /\ PartialOverlap(edits[2], edits[1])

\* ------------------------------------------------------------------- C3
\* C3 as stated: for A, B on one document where A's span contains B's span
\* (equal spans and empty spans included), merging {A, B} equals merging
\* {A} alone, whatever the input order and the replacement texts.
C3_Original ==
    (Resolved /\ Len(edits) = 2 /\ OneDocument) =>
        \A i, j \in 1..2 :
            (i # j /\ Contains(edits[i], edits[j])) =>
                merged = merge_edits(<<edits[i]>>)

\* C3 amended: for A, B on one document where A's span contains B's span
\* and B starts before A's end, merging {A, B} in either input order equals
\* merging {A} alone when the spans differ, and equals merging the edit
\* collected first alone when the spans are equal.
C3_NestingIdempotence ==
    (Resolved /\ Len(edits) = 2 /\ OneDocument) =>
        \A i, j \in 1..2 :
            (i # j /\ Contains(edits[i], edits[j])
                   /\ Start(edits[j]) < End(edits[i])) =>
                IF edits[i].span = edits[j].span
                THEN merged = merge_edits(<<edits[1]>>)
                ELSE merged = merge_edits(<<edits[i]>>)

\* the inner edit was collected first and starts where the outer one starts
C3_Witness ==
    /\ pc = "merged"
    /\ Len(edits) = 2
    /\ OneDocument
    /\ Contains(edits[2], edits[1])
    /\ Start(edits[1]) = Start(edits[2])
    /\ End(edits[1]) < End(edits[2])
    /\ ~IsEmpty(edits[1])

\* ------------------------------------------------------------------- C4
\* C4 as stated: for edits on one document whose spans are pairwise
\* non-overlapping (one's end <= the other's start), merge_edits returns
\* every input edit, none dropped and no error, in ascending start order.
C4_Original ==
    (Resolved /\ OneDocument
       /\ \A i, j \in 1..Len(edits) : i # j => Disjoint(edits[i], edits[j])) =>
        /\ ~merged.raised
        /\ SameBag(merged.value, edits)
        /\ AscendingStart(merged.value)

\* an empty span sitting at the start offset of a non-empty span
InsertionAtStartOf(a, b) ==
    IsEmpty(a) /\ ~IsEmpty(b) /\ Start(a) = Start(b)

\* C4 amended: the same, provided no edit is an insertion (empty span) at
\* the start offset of a non-empty edit of the input; such an insertion is
\* dropped as nested.
C4_DisjointPassThrough ==
    (Resolved /\ OneDocument
       /\ \A i, j \in 1..Len(edits) :
            i # j => /\ Disjoint(edits[i], edits[j])
                     /\ ~InsertionAtStartOf(edits[i], edits[j])) =>
        /\ ~merged.raised
        /\ SameBag(merged.value, edits)
        /\ AscendingStart(merged.value)

\* three edits collected out of order: two adjacent ones and an insertion
\* at the end of a non-empty one
C4_Witness ==
    /\ pc = "merged"
    /\ OneDocument
    /\ Len(edits) = 3
    /\ \A i, j \in 1..3 :
            i # j => /\ Disjoint(edits[i], edits[j])
                     /\ ~InsertionAtStartOf(edits[i], edits[j])
    /\ Start(edits[1]) > Start(edits[2])
    /\ \E i, j \in 1..3 :
            ~IsEmpty(edits[i]) /\ ~IsEmpty(edits[j]) /\ End(edits[i]) = Start(edits[j])
    /\ \E i, j \in 1..3 :
            ~IsEmpty(edits[i]) /\ IsEmpty(edits[j]) /\ End(edits[i]) = Start(edits[j])

\* ------------------------------------------------------------------- C5
\* C5: for a text of length N and a single edit (s, t, X) with
\* 0 <= s <= t <= N, _apply_edits_to_text returns text[0:s] + X + text[t:N]
\* (s = t inserts, s = 0 and t = N replaces everything); the empty edit list
\* returns the text unchanged.
C5_PatchCorrectness ==
    (pc = "patched") =>
        /\ edits = <<>> => out = Returned(text)
        /\ (Len(edits) = 1 /\ End(edits[1]) <= Len(text)) =>
               out = Returned(SubSeq(text, 1, Start(edits[1]))
                              \o edits[1].replacement
                              \o SubSeq(text, End(edits[1]) + 1, Len(text)))

\* a single insertion strictly inside the text has been applied
C5_Witness ==
    /\ pc = "patched"
    /\ Len(edits) = 1
    /\ IsEmpty(edits[1])
    /\ 0 < Start(edits[1])
    /\ Start(edits[1]) < Len(text)

\* ------------------------------------------------------------------- C6
\* C6 as stated: for two non-overlapping edits on one text (two edits with
\* the same start offset included), _apply_edits_to_text gives the same
\* outcome, text or error, whichever of the two comes first in the list.
C6_Original ==
    (pc = "patched" /\ Len(edits) = 2 /\ Disjoint(edits[1], edits[2])) =>
        out = _apply_edits_to_text(text, <<edits[2], edits[1]>>)

\* C6 amended: the same for two non-overlapping edits whose start offsets
\* differ; with equal start offsets the outcome follows the list order.
C6_OrderIndependence ==
    (pc = "patched" /\ Len(edits) = 2 /\ Disjoint(edits[1], edits[2])
       /\ Start(edits[1]) # Start(edits[2])) =>
        out = _apply_edits_to_text(text, <<edits[2], edits[1]>>)

\* the caller listed the earlier edit first and both were applied
C6_Witness ==
    /\ pc = "patched"
    /\ Len(edits) = 2
    /\ Disjoint(edits[1], edits[2])
    /\ Start(edits[1]) < Start(edits[2])
    /\ ~out.raised

\* ------------------------------------------------------------------- C7
\* the concatenation, from offset pos on, of the text outside the spans of
\* ks and the replacements of ks, for ks in ascending non-overlapping order
RECURSIVE Substituted(_, _, _, _)
Substituted(txt, ks, i, pos) ==
    IF i > Len(ks) THEN SubSeq(txt, pos + 1, Len(txt))
    ELSE SubSeq(txt, pos + 1, Start(ks[i])) \o ks[i].replacement
         \o Substituted(txt, ks, i + 1, End(ks[i]))

\* the orderings of n items
Orderings(n) ==
    {f \in [1..n -> 1..n] : \A i, j \in 1..n : i # j => f[i] # f[j]}

\* the edits kept for the document being patched
KeptOfDoc == by_path(merged.value, doc)

\* the original character c (at offset c - 1) lies inside a kept span
InsideKept(c) ==
    \E k \in 1..Len(KeptOfDoc) :
        Start(KeptOfDoc[k]) < c /\ c <= End(KeptOfDoc[k])

\* C7: when the merge succeeds and the document's spans lie within
\* [0, len(text)], applying the merged group gives the concatenation, in
\* ascending offset order, of the original text outside the kept spans and
\* the kept replacements: every original character outside all kept spans
\* appears exactly once and in its original order, none inside a kept span
\* appears.
C7_SimultaneousSubstitution ==
    (pc = "applied"
       /\ \A i \in 1..Len(edits) :
            edits[i].path = doc => End(edits[i]) <= Len(text)) =>
        /\ ~out.raised
        /\ \E f \in Orderings(Len(KeptOfDoc)) :
              /\ AscendingStart([i \in 1..Len(KeptOfDoc) |-> KeptOfDoc[f[i]]])
              /\ out.value =
                     Substituted(text,
                                 [i \in 1..Len(KeptOfDoc) |-> KeptOfDoc[f[i]]],
                                 1, 0)
        /\ \A c \in 1..Len(text) :
              Count(out.value, c) = IF InsideKept(c) THEN 0 ELSE 1
        /\ \A i, j \in 1..Len(out.value) :
              (i < j /\ out.value[i] <= Len(text) /\ out.value[j] <= Len(text))
                  => out.value[i] < out.value[j]

\* a replacement and an insertion were kept, a nested edit was dropped, and
\* the group was applied to a text that holds all the spans
C7_Witness ==
    /\ pc = "applied"
    /\ \A i \in 1..Len(edits) :
            edits[i].path = doc => End(edits[i]) <= Len(text)
    /\ Len(KeptOfDoc) = 2
    /\ Len(by_path(edits, doc)) = 3
    /\ \E i, j \in 1..2 : ~IsEmpty(KeptOfDoc[i]) /\ IsEmpty(KeptOfDoc[j])

\* ------------------------------------------------------------------- C8
\* C8 as stated: whenever the input holds, for some document, two edits
\* that overlap partially, merge_edits raises the conflict error, however
\* many other edits (edits containing both included) that document has.
C8_Original ==
    Resolved =>
        \A i, j \in 1..Len(edits) :
            (edits[i].path = edits[j].path
               /\ PartialOverlap(edits[i], edits[j])) => merged.raised

\* some input edit of the same document contains both edits[i] and edits[j]
CoveredBoth(i, j) ==
    \E k \in 1..Len(edits) :
        /\ edits[k].path = edits[i].path
        /\ Contains(edits[k], edits[i])
        /\ Contains(edits[k], edits[j])

\* C8 amended: whenever the input holds, for some document, two partially
\* overlapping edits and no edit of that document contains both of them,
\* merge_edits raises the conflict error; when it returns in spite of such
\* a pair, one kept edit of that document contains both (outermost wins).
C8_ConflictDetection ==
    Resolved =>
        \A i, j \in 1..Len(edits) :
            (edits[i].path = edits[j].path
               /\ PartialOverlap(edits[i], edits[j])) =>
                /\ ~CoveredBoth(i, j) => merged.raised
                /\ ~merged.raised =>
                       \E k \in 1..Len(merged.value) :
                           /\ merged.value[k].path = edits[i].path
                           /\ Contains(merged.value[k], edits[i])
                           /\ Contains(merged.value[k], edits[j])

\* a partially overlapping pair with a third edit of the document nested in
\* the first of the two, and nothing containing the pair
C8_Witness ==
    /\ pc = "merged"
    /\ OneDocument
    /\ Len(edits) = 3
    /\ \E i, j, k \in 1..3 :
            /\ PartialOverlap(edits[i], edits[j])
            /\ k # i /\ k # j
            /\ Contains(edits[i], edits[k])
            /\ ~CoveredBoth(i, j)

\* ------------------------------------------------------------------- C9
\* the input with every edit appearing twice
Doubled(es) == es \o es

\* C9 as stated: two edits on one document with identical spans (s, t),
\* for every s <= t, resolve to exactly one of them, the second dropped;
\* so an input with every edit twice resolves like the input with each once.
C9_Original ==
    Resolved =>
        /\ (Len(edits) = 2 /\ OneDocument /\ edits[1].span = edits[2].span)
               => merged = Returned(<<edits[1]>>)
        /\ merge_edits(Doubled(edits)) = merged

\* C9 amended: the same for identical non-empty spans (s < t), and for
\* doubled inputs whose spans are all non-empty; two edits with the same
\* empty span (s, s) that no other edit covers are both kept.
C9_DuplicatesCollapse ==
    Resolved =>
        /\ (Len(edits) = 2 /\ OneDocument /\ edits[1].span = edits[2].span
              /\ ~IsEmpty(edits[1])) => merged = Returned(<<edits[1]>>)
        /\ (\A i \in 1..Len(edits) : ~IsEmpty(edits[i]))
               => merge_edits(Doubled(edits)) = merged

\* two edits with the same non-empty span were merged
C9_Witness ==
    /\ pc = "merged"
    /\ Len(edits) = 2
    /\ OneDocument
    /\ edits[1].span = edits[2].span
    /\ ~IsEmpty(edits[1])

\* ------------------------------------------------------------------ C10
\* both spans are non-empty and share a character
Overlap(a, b) ==
    /\ Start(a) < End(b) /\ Start(b) < End(a)
    /\ ~IsEmpty(a) /\ ~IsEmpty(b)

Reversed(sq) == [i \in 1..Len(sq) |-> sq[Len(sq) + 1 - i]]

\* C10: for any text and any edit list holding two edits whose non-empty
\* spans overlap (nested or partial), _apply_edits_to_text raises the span
\* error and returns no text, whatever the order of the list.
C10_PatcherRejectsOverlap ==
    (pc = "patched"
       /\ \E i, j \in 1..Len(edits) : i # j /\ Overlap(edits[i], edits[j])) =>
        /\ out.raised
        /\ out.value = <<>>
        /\ _apply_edits_to_text(text, Reversed(edits)).raised

\* two nested edits, each valid for the text on its own, went to the patcher
C10_Witness ==
    /\ pc = "patched"
    /\ Len(edits) = 2
    /\ Overlap(edits[1], edits[2])
    /\ Contains(edits[1], edits[2])
    /\ End(edits[1]) <= Len(text)

\* ------------------------------------------------------------------ C11
\* the list is not in the resolver's output order
OutOfOrder(es) == ~AscendingStart(es)

\* the list could have come out of the resolver but for its order
WellSeparated(es, n) ==
    /\ \A i \in 1..Len(es) : End(es[i]) <= n
    /\ \A i, j \in 1..Len(es) :
          i # j => Disjoint(es[i], es[j]) /\ Start(es[i]) # Start(es[j])

\* C11 as stated: given a list of edits that is not sorted by ascending
\* start, _apply_edits_to_text raises the span error instead of producing
\* text.
C11_Original ==
    (pc = "patched" /\ OutOfOrder(edits)) => out.raised

\* C11 amended: the patcher sorts the list itself, so a list that is not
\* sorted by ascending start is patched like the sorted one: with pairwise
\* non-overlapping spans inside the text and distinct start offsets it
\* returns the simultaneous substitution, and it raises the span error only
\* when a span leaves the text, two spans overlap or two spans share a
\* start offset.
C11_PatcherSortsItself ==
    (pc = "patched" /\ OutOfOrder(edits)) =>
        /\ WellSeparated(edits, Len(text)) =>
              /\ ~out.raised
              /\ \E f \in Orderings(Len(edits)) :
                    /\ AscendingStart([i \in 1..Len(edits) |-> edits[f[i]]])
                    /\ out.value =
                           Substituted(text,
                                       [i \in 1..Len(edits) |-> edits[f[i]]],
                                       1, 0)
        /\ out.raised => ~WellSeparated(edits, Len(text))

\* three separate edits inside the text, handed over neither ascending nor
\* descending
C11_Witness ==
    /\ pc = "patched"
    /\ Len(edits) = 3
    /\ WellSeparated(edits, Len(text))
    /\ Start(edits[1]) < Start(edits[2])
    /\ Start(edits[3]) < Start(edits[1])

\* ------------------------------------------------------------------ C18
\* the documents of a list, in the order in which the list reaches them
DocsOf(es) == [i \in 1..Len(es) |-> es[i].path]

\* C18: the list returned by merge_edits is grouped by document, the groups
\* in ascending order of the documents' POSIX strings: of two kept edits,
\* the later one is on the same document or on a document with a greater
\* string, whatever the order in which the edits were collected.
C18_GroupedByDocument ==
    (Resolved /\ ~merged.raised) =>
        \A i, j \in 1..Len(merged.value) :
            i < j => \/ DocsOf(merged.value)[i] = DocsOf(merged.value)[j]
                     \/ PosixLess(DocsOf(merged.value)[i],
                                  DocsOf(merged.value)[j])

\* edits collected for the greater document first, then the smaller, then
\* the greater again; all three are kept
C18_Witness ==
    /\ Resolved /\ ~merged.raised
    /\ Len(edits) = 3 /\ Len(merged.value) = 3
    /\ PosixLess(edits[2].path, edits[1].path)
    /\ edits[3].path = edits[1].path

\* ------------------------------------------------------------------ C20
\* two edits of one document with the same non-empty span (the replacement
\* texts of two collected edits always differ)
ExactDuplicates(a, b) ==
    /\ a.path = b.path /\ a.span = b.span
    /\ ~IsEmpty(a) /\ a.replacement # b.replacement

\* C20: of two edits collected for the same document with the same
\* non-empty span and different replacement texts, the one collected later
\* is never in the list merge_edits returns, and when the two are the whole
\* input the call returns exactly the first one, without an error.
C20_FirstSeenWins ==
    Resolved =>
        \A i, j \in 1..Len(edits) :
            (i < j /\ ExactDuplicates(edits[i], edits[j])) =>
                /\ ~merged.raised => Count(merged.value, edits[j]) = 0
                /\ Len(edits) = 2 => merged = Returned(<<edits[1]>>)

\* a pair of exact duplicates next to an edit elsewhere in the document;
\* the first of the pair is kept
C20_Witness ==
    /\ Resolved /\ ~merged.raised
    /\ Len(edits) = 3
    /\ ExactDuplicates(edits[1], edits[3])
    /\ Count(merged.value, edits[1]) = 1
    /\ Len(merged.value) = 2

\* ------------------------------------------------------------------ C12
\* a pass over storage has been called
Called == pc \in {"running", "done"}

\* the pass has ended, by returning or by raising
Ended == pc = "done" /\ run > 0

\* resolve detects a conflict among the edits collected for document p
ConflictIn(p) == merge_edits(by_path(edits, p)).raised

Untouched == store = before /\ reads = NoAccess /\ writes = NoAccess

\* C12: when the edits collected for some document contain a conflict that
\* merge_edits detects, a pass of either kind ends with the conflict error
\* before it reads or writes any document: nothing is read, nothing is
\* written, the store is as it was and no mapping has been filled.
C12_ConflictAbortsPass ==
    (Called /\ \E p \in Keys(edits) : ConflictIn(p)) =>
        /\ Ended
        /\ status = "conflict"
        /\ previews = <<>>
        /\ Untouched

\* a persist pass: the edits of "b" conflict, the one edit of "ab" does
\* not, and both documents are stored
C12_Witness ==
    /\ Ended /\ op = "persist"
    /\ ConflictIn(<<2>>)
    /\ <<1, 2>> \in Keys(edits) /\ ~ConflictIn(<<1, 2>>)
    /\ store[<<1, 2>>].present /\ store[<<2>>].present

\* ------------------------------------------------------------------ C13
\* C13: during and after apply_edits_preview, however it ends, every
\* document's stored text is what it was when the pass was called.
C13_PreviewLeavesStorage ==
    (Called /\ op = "preview") => store = before

\* a preview pass that patched one document and raised the span error on
\* the next
C13_Witness ==
    /\ Ended /\ op = "preview"
    /\ status = "span_error"
    /\ previews # <<>>
    /\ \E p \in DOMAIN previews : previews[p] # before[p].text

\* ------------------------------------------------------------------ C14
\* the kept edits of document p, as the pass groups them
GroupOf(p) == by_path(merged.value, p)

\* new is txt with the edits ks substituted simultaneously, in ascending
\* order of their start offsets
Patched(new, txt, ks) ==
    \E f \in Orderings(Len(ks)) :
        /\ AscendingStart([i \in 1..Len(ks) |-> ks[f[i]]])
        /\ new = Substituted(txt, [i \in 1..Len(ks) |-> ks[f[i]]], 1, 0)

\* C14: when apply_edits_preview returns, the keys of the mapping are
\* exactly the documents for which at least one edit was collected, and
\* each is mapped to the simultaneous substitution of its kept edits in its
\* stored text.
C14_PreviewKeys ==
    (Ended /\ op = "preview" /\ status = "returned") =>
        /\ DOMAIN previews = Keys(edits)
        /\ \A p \in Keys(edits) :
              Patched(previews[p], before[p].text, GroupOf(p))

\* a returned preview of one document; the other is stored but has no
\* edit, and one collected edit was dropped as nested
C14_Witness ==
    /\ Ended /\ op = "preview" /\ status = "returned"
    /\ Keys(edits) = {<<1, 2>>}
    /\ store[<<2>>].present
    /\ Len(merged.value) < Len(edits)

\* ------------------------------------------------------------------ C15
\* the pass that just ended and the one before it were both of kind o, and
\* nothing touched storage between them
Rerun(o) ==
    /\ Ended /\ op = o /\ prev.op = o
    /\ before = prev.store

\* C15: two successive apply_edits_preview calls with the same edit list
\* and unchanged storage end alike: both return, with equal mappings, or
\* both raise the same error.
C15_PreviewRepeatable ==
    Rerun("preview") =>
        /\ status = prev.status
        /\ status = "returned" => previews = prev.previews

\* two returned previews that changed the text of two documents
C15_Witness ==
    /\ Rerun("preview")
    /\ status = "returned"
    /\ DOMAIN previews = Paths
    /\ \A p \in Paths : previews[p] # store[p].text

\* ------------------------------------------------------------------ C16
\* C16 as stated: after apply_edits_in_place is run again with the same
\* edit list, every document's stored text is what the first run left.
C16_Original ==
    Rerun("persist") => store = prev.store

\* C16 amended: running apply_edits_in_place again with the same edit list
\* applies the kept edits again, to the text the first run wrote: when the
\* second run returns, every edited document holds the simultaneous
\* substitution of its kept edits in the text the first run left; a
\* document without edits, and every document when the second run raises
\* the conflict error, stays as the first run left it.
C16_PersistReapplies ==
    Rerun("persist") =>
        /\ \A p \in Paths \ Keys(edits) : store[p] = prev.store[p]
        /\ status = "conflict" => store = prev.store
        /\ status = "returned" =>
              \A p \in Keys(edits) :
                  /\ store[p].present
                  /\ Patched(store[p].text, prev.store[p].text, GroupOf(p))

\* both runs returned, and the second changed what the first had written
C16_Witness ==
    /\ Rerun("persist")
    /\ status = "returned" /\ prev.status = "returned"
    /\ \E p \in Keys(edits) : store[p] # prev.store[p]

\* ------------------------------------------------------------------ C17
\* the pass raised while it processed the document at the head of the queue
FailedAt(d) ==
    /\ Ended /\ queue # <<>> /\ d = Head(queue)
    /\ status \in {"span_error", "read_error", "write_error"}

\* the documents the loop had completed before it reached the queue
Completed == Keys(merged.value) \ {queue[i] : i \in 1..Len(queue)}

\* C17: when apply_edits_in_place raises a span error or a storage error
\* while processing document d, every document processed before d holds
\* its patched text, d is as it was when the error is the span error, and
\* no document after d has been read or written.
C17_PersistFailsPerDocument ==
    \A d \in Paths :
        (op = "persist" /\ FailedAt(d)) =>
            /\ \A p \in Completed :
                  /\ writes[p] = 1
                  /\ store[p].present
                  /\ Patched(store[p].text, before[p].text, GroupOf(p))
            /\ status = "span_error" => store[d] = before[d] /\ writes[d] = 0
            /\ \A i \in 2..Len(queue) :
                  /\ store[queue[i]] = before[queue[i]]
                  /\ reads[queue[i]] = 0 /\ writes[queue[i]] = 0

\* the span error on the second document, after the first was rewritten
C17_Witness ==
    /\ op = "persist" /\ FailedAt(<<2>>)
    /\ status = "span_error"
    /\ Completed = {<<1, 2>>}
    /\ store[<<1, 2>>] # before[<<1, 2>>]

\* ------------------------------------------------------------------ C19
\* rule i is a qualname rule that matches node n
QualHit(i, n) ==
    HasColon(rules[i].match) /\ fnmatchcase(Qual(n), rules[i].match)

\* rule i is a path rule that matches the file
PathHit(i) ==
    /\ ~HasColon(rules[i].match)
    /\ \E c \in PathCandidates : fnmatchcase(c, rules[i].match)

FileLevelMode(m) == m = "file:no-imports"

\* the path rules that count for node n: those matching the file, without
\* the file-level ones unless n is the module
Counting(n) ==
    {i \in 1..Len(rules) :
        PathHit(i) /\ (FileLevelMode(rules[i].mode) => n = "module")}

Least(S) == CHOOSE i \in S : \A j \in S : i <= j

\* the action decided for node n, once it is decided
DecisionOf(n) ==
    LET i == CHOOSE k \in 1..Len(decisions) : decisions[k].node = n
    IN  decisions[i].action.kind

RenderedAs(n) ==
    LET i == CHOOSE k \in 1..Len(rendered) : rendered[k].node = n
    IN  rendered[i].as

\* C19: the action decided for a node is that of the first qualname rule
\* matching the node if there is one; otherwise that of the first path rule
\* matching the file, file-level rules being skipped unless the node is the
\* module; otherwise the default.  So with a 'file:no-imports' rule on the
\* file, a 'sig' rule on function g and the default 'full', the imports are
\* dropped, g is contracted to its signature and f stays in full.
C19_FileRuleOnlyOnRoot ==
    (pc = "rendered") =>
        /\ \A k \in 1..Len(Nodes) :
              LET n  == Nodes[k]
                  qs == {i \in 1..Len(rules) : QualHit(i, n)}
              IN  DecisionOf(n) =
                      IF qs # {} THEN rules[Least(qs)].mode
                      ELSE IF Counting(n) # {}
                      THEN rules[Least(Counting(n))].mode
                      ELSE default
        /\ (/\ default = "full"
            /\ \E i, j \in 1..Len(rules) :
                  /\ PathHit(i) /\ rules[i].mode = "file:no-imports"
                  /\ rules[j].match = Qual("g") /\ rules[j].mode = "sig"
            /\ Len(rules) = 2) =>
               /\ RenderedAs("module") = "imports dropped"
               /\ RenderedAs("g") = "signature"
               /\ RenderedAs("f") = "full"

\* the file-level rule comes first and matches the file, the 'sig' rule on
\* g second; the three nodes are rendered
C19_Witness ==
    /\ pc = "rendered"
    /\ default = "full"
    /\ rules = <<[match |-> <<2>>, mode |-> "file:no-imports"],
                 [match |-> Qual("g"), mode |-> "sig"]>>
    /\ Len(rendered) = 3

\* ------------------------------------------------------------------ C23
\* every two collected edits of one document are nested or non-overlapping
Laminar(es) ==
    \A i, j \in 1..Len(es) :
        es[i].path = es[j].path =>
            \/ Contains(es[i], es[j]) \/ Contains(es[j], es[i])
            \/ Disjoint(es[i], es[j])

\* C23: when merge_edits raises, the document and the two spans of the
\* error are those of two collected edits K and E of that document with
\* K.start < E.start < K.end < E.end; and merge_edits does not raise when
\* every two collected edits of one document are nested or non-overlapping.
C23_ConflictsAreGenuine ==
    Resolved =>
        /\ merged.raised =>
              \E i, j \in 1..Len(edits) :
                  /\ edits[i].path = merged.path
                  /\ edits[j].path = merged.path
                  /\ edits[i].span = merged.kspan
                  /\ edits[j].span = merged.espan
                  /\ PartialOverlap(edits[i], edits[j])
        /\ Laminar(edits) => ~merged.raised

\* the merge raised although the two partially overlapping edits were
\* collected after, and lie inside, an edit that is dropped with them
C23_Witness ==
    /\ Resolved /\ merged.raised
    /\ Len(edits) = 3
    /\ OneDocument
    /\ PartialOverlap(edits[3], edits[2])
    /\ merged.kspan = edits[3].span
    /\ merged.espan = edits[2].span

\* ------------------------------------------------------------------ C24
\* edit e is in the list ks or lies inside the span of an edit of ks on the
\* same document
KeptOrCovered(e, ks) ==
    \/ Count(ks, e) > 0
    \/ \E k \in 1..Len(ks) : ks[k].path = e.path /\ Contains(ks[k], e)

\* C24: when merge_edits returns, every collected edit is in the returned
\* list or has its span contained in the span of a returned edit of the
\* same document.
C24_OutermostWins ==
    (Resolved /\ ~merged.raised) =>
        \A i \in 1..Len(edits) : KeptOrCovered(edits[i], merged.value)

\* two of three collected edits were dropped, one of them ending exactly
\* where the kept edit ends
C24_Witness ==
    /\ Resolved /\ ~merged.raised
    /\ Len(edits) = 3 /\ Len(merged.value) = 1
    /\ \E i \in 1..3 :
          /\ Count(merged.value, edits[i]) = 0
          /\ End(edits[i]) = End(merged.value[1])
          /\ Start(edits[i]) > Start(merged.value[1])

\* ------------------------------------------------------------------ C25
\* every edit collected for the document being patched lies within its text
DocInRange ==
    \A i \in 1..Len(edits) :
        edits[i].path = doc =>
            0 <= Start(edits[i]) /\ End(edits[i]) <= Len(text)

\* C25: when merge_edits returned and every span collected for a document
\* lies within [0, len(text)], _apply_edits_to_text applied to the
\* document's resolved group does not raise the span error.
C25_ResolvedGroupAccepted ==
    (pc = "applied" /\ DocInRange) => ~out.raised

\* the applied group holds two insertions at one offset and an edit that
\* ends at the end of the text
C25_Witness ==
    /\ pc = "applied" /\ DocInRange
    /\ Len(KeptOfDoc) = 3
    /\ \E i, j \in 1..3 :
          /\ i # j
          /\ IsEmpty(KeptOfDoc[i]) /\ KeptOfDoc[i].span = KeptOfDoc[j].span
    /\ \E k \in 1..3 : End(KeptOfDoc[k]) = Len(text) /\ ~IsEmpty(KeptOfDoc[k])

\* ------------------------------------------------------------------ C26
\* C26: when merge_edits returns for the collected edits, merge_edits of
\* the returned list returns that same list, in the same order, and does
\* not raise.
C26_ResolutionIdempotent ==
    (Resolved /\ ~merged.raised) =>
        merge_edits(merged.value) = Returned(merged.value)

\* the returned list is not the collected one: the documents were
\* reordered; two of the returned edits are insertions at one offset of one
\* document
C26_Witness ==
    /\ Resolved /\ ~merged.raised
    /\ Len(edits) = 3 /\ Len(merged.value) = 3
    /\ merged.value # edits
    /\ \E i \in 1..2 :
          /\ merged.value[i].span = merged.value[i + 1].span
          /\ merged.value[i].path = merged.value[i + 1].path

\* ------------------------------------------------------------------ C21
\* read_text calls made for file p since build_prompt began
ReadsOf(p) == loaded[p] + reads[p]

\* build_prompt has packed the files
Packed == pc = "packed"

\* C21: when build_prompt has packed its files, every file handled by an
\* engine was read from storage exactly once during the pass, and the text
\* shown for a file with edits is the text from which the spans of its
\* edits were computed (docs_text) with its kept edits substituted.
C21_SingleSnapshot ==
    Packed =>
        \A p \in DOMAIN docs_text :
            /\ ReadsOf(p) = 1
            /\ p \in Keys(edits) =>
                  Patched(shown[p], docs_text[p], GroupOf(p))

\* another writer put a new first character into the file between the two
\* reads: the pass returned, and the text shown is the rewritten text
\* patched at the spans computed from the text read first
C21_Witness ==
    /\ Packed
    /\ \E p \in DOMAIN docs_text :
          /\ p \in Keys(edits) /\ p \in foreign
          /\ loaded[p] = 1 /\ reads[p] = 1
          /\ Len(store[p].text) = Len(docs_text[p]) + 1
          /\ ~Patched(shown[p], docs_text[p], GroupOf(p))
          /\ Patched(shown[p], store[p].text, GroupOf(p))

\* ------------------------------------------------------------------ C22
\* the hide edit of the class whose header is line c
ClassHide(c) == Edit(EnginePath, ClassSpan(py_lines, trailing, c), ClassOmitted)

\* the edit of the method or function at line m
MemberEdit(m) ==
    Edit(EnginePath, DefinitionSpan(py_lines, trailing, m), Contracted)

\* line m is a method of the class whose header is line c
MemberOf(m, c) ==
    /\ c \in 1..Len(py_lines) /\ py_lines[c] = "class"
    /\ c < m /\ m <= EndLine(py_lines, c)

\* C22: when the Python engine has rendered the hide edit of a class and
\* an edit of a method of that class, the method's span lies inside the
\* class's span, merge_edits does not raise, and the method's edit is not
\* in the list it returns.
C22_ClassHideSubsumesMembers ==
    Resolved =>
        \A c, m \in 1..Len(py_lines) :
            (/\ MemberOf(m, c)
             /\ Count(edits, ClassHide(c)) > 0
             /\ Count(edits, MemberEdit(m)) > 0) =>
                /\ Contains(ClassHide(c), MemberEdit(m))
                /\ ~merged.raised
                /\ Count(merged.value, MemberEdit(m)) = 0

\* only a class hide and the edit of the class's last method were
\* rendered, the method's line ends with a newline, and merge_edits raised
\* the conflict between the two
C22_Witness ==
    /\ Resolved /\ merged.raised
    /\ Len(edits) = 2
    /\ \E c, m \in 1..Len(py_lines) :
          /\ MemberOf(m, c) /\ m = EndLine(py_lines, c)
          /\ edits = <<ClassHide(c), MemberEdit(m)>>
          /\ merged.kspan = ClassHide(c).span
          /\ merged.espan = MemberEdit(m).span
          /\ End(MemberEdit(m)) = End(ClassHide(c)) + 1

\* ------------------------------------------------------------------ C28
ModuleHidden ==
    Count(edits, Edit(EnginePath, <<0, SourceLen(py_lines, trailing)>>,
                      ModuleOmitted)) > 0

NestedSpans(a, b) ==
    \/ (a[1] <= b[1] /\ b[2] <= a[2])
    \/ (b[1] <= a[1] /\ a[2] <= b[2])

\* the two spans share no character
DisjointSpans(a, b) == a[2] <= b[1] \/ b[2] <= a[1]

\* C27: any two section spans of a Markdown text are nested or disjoint,
\* never partially overlapping, and the edits rendered for any combination
\* of hide decisions on the sections and on the whole document resolve
\* without a conflict error.
C27_SectionsLaminar ==
    /\ \A i, j \in Headings(md_lines) :
          \/ NestedSpans(SectionSpan(md_lines, i), SectionSpan(md_lines, j))
          \/ DisjointSpans(SectionSpan(md_lines, i),
                           SectionSpan(md_lines, j))
    /\ (Resolved /\ md_lines # <<>>) => ~merged.raised

\* the whole document, a section, a deeper section inside it and a later
\* section disjoint from both were hidden, and the edits resolved
C27_Witness ==
    /\ pc = "merged" /\ ~merged.raised
    /\ Count(edits, Edit(MdPath, <<0, MdLen(md_lines)>>, <<>>)) = 1
    /\ \E i, j, k \in Headings(md_lines) :
          /\ i < j /\ j < k
          /\ md_lines[i] < md_lines[j]
          /\ SectionSpan(md_lines, i)[1] < SectionSpan(md_lines, j)[1]
          /\ SectionSpan(md_lines, j)[2] <= SectionSpan(md_lines, i)[2]
          /\ DisjointSpans(SectionSpan(md_lines, i),
                           SectionSpan(md_lines, k))
          /\ \A h \in {i, j, k} :
                Count(edits, Edit(MdPath, SectionSpan(md_lines, h), <<>>)) = 1

====
